---------------------------- MODULE Spec2Model ----------------------------
(***************************************************************************)
(* Enrichment cache engine of the Equities repository.                     *)
(*                                                                         *)
(*   - ComprehensiveEnrichmentManager (airflow/scripts/                    *)
(*     comprehensive_enrichment.py): staleness selection, provider call    *)
(*     with retry/backoff, quality scoring, versioned batch upsert.        *)
(*   - EnrichedTickerData (stocks/models.py): the version table and the    *)
(*     ORM upsert create_new_version.                                      *)
(*   - EnrichedDataService (stocks/enriched_data_service.py): the          *)
(*     database-first lookup with on-demand fallback.                      *)
(*                                                                         *)
(* Conventions.  Python None / SQL NULL is the string NULL; a missing      *)
(* market cap is 0 (the extraction maps 0 and absent to None, so 0 never   *)
(* is a stored cap).  Scores are in fortieths (0.8 = 32, 1.0 = 40),        *)
(* confidences in hundredths, time in days.  SHA-256 is taken to be        *)
(* injective: a digest is modelled by the string it is computed from, the  *)
(* sorted list of (key, value) items.                                      *)
(***************************************************************************)
EXTENDS Integers, Sequences, FiniteSets, TLC

NULL == "NULL"

--------------------------------------------------------------------------
(* Bounds of the model *)

\* rows the store may hold before no further upsert is started
MaxRows == 2
\* clock advances in one behaviour
MaxTicks == 1
\* rows of the tables the selector is run on by itself
MaxSelRows == 2
\* the time the selector is run at by itself
SelNow == 10
\* rows the store may hold in the model of racing writers
MaxRaceRows == 2

--------------------------------------------------------------------------
(* Program constants *)

\* max_retries of the info fetch loop
max_retries == 3
\* base of the backoff, (2 ** attempt) * 10
BackoffBase == 10
\* batch_size of one process_comprehensive_batch call of the DAG
batch_size == 25
\* max_batches of execute_comprehensive_enrichment
max_batches == 8
\* days=7 of get_stale_tickers, the freshness window
StaleDays == 7
\* INTERVAL '1 days', the grace window of recent high-quality data
GraceDays == 1
\* min_quality=0.8, in fortieths
MinQuality == 32
\* max_score = 10.0, in fortieths of a point times 4
MaxScoreUnits == 40

--------------------------------------------------------------------------
(* The known-symbol universe: stocks_listing, in ORDER BY symbol order *)

SymbolSeq == <<"ABC", "RY.TO">>
Symbols == {SymbolSeq[i] : i \in 1..Len(SymbolSeq)}

\* str.endswith on the symbols of the listing
EndsWith(symbol, suffix) == <<symbol, suffix>> \in {<<"RY.TO", ".TO">>}

\* the substring test  tok in name.upper()  on the provider's names
NameContains(name, tok) == <<name, tok>> \in {<<"Maple ETF", "ETF">>}

\* re.sub(r'[^a-zA-Z0-9]', '_', name.lower()), None for a missing name
GenerateKey(name) ==
    CASE name = NULL -> NULL
      [] name = "" -> NULL
      [] name = "Technology" -> "technology"
      [] name = "Health Care" -> "health_care"
      [] name = "Software" -> "software"
      [] name = "Drug Makers" -> "drug_makers"
      [] OTHER -> name

--------------------------------------------------------------------------
(* Provider payloads: the info dict of yfinance, one field per key read.   *)
(* A key that is absent holds NULL; peg is the key trailingPegRatio        *)
(* present with value None; price is regularMarketPrice or symbol present. *)

NoInfo ==
    [peg |-> FALSE, price |-> FALSE, longName |-> NULL, shortName |-> NULL,
     exchange |-> NULL, currency |-> NULL, quoteType |-> NULL, sector |-> NULL,
     industry |-> NULL, country |-> NULL, marketCap |-> 0]

PegOnlyInfo == [NoInfo EXCEPT !.peg = TRUE]

TechInfo ==
    [peg |-> FALSE, price |-> TRUE, longName |-> "Acme Inc", shortName |-> "Acme",
     exchange |-> "NMS", currency |-> "USD", quoteType |-> "EQUITY",
     sector |-> "Technology", industry |-> "Software", country |-> "Canada",
     marketCap |-> 1000]

HealthInfo == [TechInfo EXCEPT !.sector = "Health Care", !.industry = "Drug Makers"]

\* the same company quoted in another currency on another exchange
TechEurInfo == [TechInfo EXCEPT !.currency = "EUR", !.exchange = "GER"]

\* a thin payload: a price and a short name, nothing else
ThinInfo == [NoInfo EXCEPT !.price = TRUE, !.shortName = "Thin"]

\* a payload with one key that is none of the essential ones
OddInfo == [NoInfo EXCEPT !.currency = "USD"]

EtfInfo ==
    [TechInfo EXCEPT !.longName = "Maple ETF", !.quoteType = "ETF",
                     !.sector = NULL, !.industry = NULL]

Payloads == {NoInfo, PegOnlyInfo, TechInfo, HealthInfo, TechEurInfo, ThinInfo,
             OddInfo, EtfInfo}

\* len(info)
InfoLen(info) ==
    (IF info.peg THEN 1 ELSE 0) + (IF info.price THEN 1 ELSE 0)
  + (IF info.longName # NULL THEN 1 ELSE 0) + (IF info.shortName # NULL THEN 1 ELSE 0)
  + (IF info.exchange # NULL THEN 1 ELSE 0) + (IF info.currency # NULL THEN 1 ELSE 0)
  + (IF info.quoteType # NULL THEN 1 ELSE 0) + (IF info.sector # NULL THEN 1 ELSE 0)
  + (IF info.industry # NULL THEN 1 ELSE 0) + (IF info.country # NULL THEN 1 ELSE 0)
  + (IF info.marketCap # 0 THEN 1 ELSE 0)


--------------------------------------------------------------------------
(* Extraction of the enrichment fields from a payload (batch side) *)

\* info.get('quoteType', '').upper()
QuoteType(info) == IF info.quoteType = NULL THEN "" ELSE info.quoteType

\* (info.get('longName', '') or '')
LongName(info) == IF info.longName = NULL THEN "" ELSE info.longName

_extract_company_data(info) ==
    [company_name |-> IF info.longName # NULL THEN info.longName ELSE info.shortName,
     exchange |-> info.exchange,
     currency |-> IF info.currency = NULL THEN "USD" ELSE info.currency,
     is_active |-> TRUE]

_extract_asset_classification(info, symbol) ==
    LET qt == QuoteType(info)
        ln == LongName(info)
    IN  IF qt = "ETF" \/ NameContains(ln, "ETF")
        THEN [asset_type |-> "ETF", asset_confidence |-> 95]
        ELSE IF qt = "MUTUALFUND" \/ NameContains(ln, "MUTUAL FUND")
        THEN [asset_type |-> "MUTUAL_FUND", asset_confidence |-> 95]
        ELSE IF qt = "EQUITY" \/ qt = "STOCK"
        THEN IF NameContains(ln, "REIT") \/ info.industry = "REIT"
             THEN [asset_type |-> "REIT", asset_confidence |-> 90]
             ELSE IF NameContains(ln, "PREFERRED") \/ EndsWith(symbol, ".PR")
             THEN [asset_type |-> "PREFERRED", asset_confidence |-> 90]
             ELSE [asset_type |-> "STOCK", asset_confidence |-> 80]
        ELSE IF qt = "CURRENCY"
        THEN [asset_type |-> "CURRENCY", asset_confidence |-> 95]
        ELSE IF qt = "FUTURE"
        THEN [asset_type |-> "FUTURE", asset_confidence |-> 95]
        ELSE IF qt = "OPTION"
        THEN [asset_type |-> "OPTION", asset_confidence |-> 95]
        ELSE IF EndsWith(symbol, ".WT") \/ EndsWith(symbol, ".W")
        THEN [asset_type |-> "WARRANT", asset_confidence |-> 85]
        ELSE IF EndsWith(symbol, ".TO")
        THEN [asset_type |-> "STOCK", asset_confidence |-> 70]
        ELSE [asset_type |-> "OTHER", asset_confidence |-> 30]

_extract_sector_industry(info) ==
    [sector |-> info.sector, industry |-> info.industry,
     sector_key |-> GenerateKey(info.sector),
     industry_key |-> GenerateKey(info.industry)]

\* the country inferred from the symbol when the payload names none
InferCountry(info, symbol) ==
    IF info.country # NULL THEN info.country
    ELSE IF EndsWith(symbol, ".TO") \/ EndsWith(symbol, ".V") THEN "Canada"
    ELSE IF EndsWith(symbol, ".L") \/ EndsWith(symbol, ".LSE") THEN "United Kingdom"
    ELSE IF EndsWith(symbol, ".DE") \/ EndsWith(symbol, ".F") THEN "Germany"
    ELSE "United States"

country_to_region(country) ==
    CASE country \in {"Canada", "United States"} -> "North America"
      [] country \in {"United Kingdom", "Germany", "France", "Italy", "Spain"} -> "Europe"
      [] country \in {"Japan", "China"} -> "Asia"
      [] country = "Australia" -> "Oceania"
      [] OTHER -> "North America"

country_codes(country) ==
    CASE country = "Canada" -> "CA"
      [] country = "United States" -> "US"
      [] country = "United Kingdom" -> "GB"
      [] country = "Germany" -> "DE"
      [] country = "France" -> "FR"
      [] country = "Japan" -> "JP"
      [] country = "China" -> "CN"
      [] country = "Australia" -> "AU"
      [] OTHER -> "US"

_extract_geographic_data(info, symbol) ==
    LET country == InferCountry(info, symbol)
    IN  [country |-> country, country_code |-> country_codes(country),
         region |-> country_to_region(country)]

\* int(marketCap) when it is a non-zero number, else None (0 here)
_extract_financial_metrics(info) == [market_cap |-> info.marketCap]

\* The score, in fortieths: the weights 1, 2, 1.5, 1.5, 1, 1, 0.5, 0.5 and
\* the bonus 1 over max_score 10, each times 4.
\* variant: the bonus is given from a confidence of 0.8 on
ScoreBonusFromThreshold(a) ==
    LET score ==
          (IF a.company_name # NULL THEN 4 ELSE 0)
        + (IF a.asset_type # NULL /\ a.asset_type # "OTHER" THEN 8 ELSE 0)
        + (IF a.sector # NULL THEN 6 ELSE 0)
        + (IF a.industry # NULL THEN 6 ELSE 0)
        + (IF a.country # NULL THEN 4 ELSE 0)
        + (IF a.market_cap # 0 THEN 4 ELSE 0)
        + (IF a.currency # NULL THEN 2 ELSE 0)
        + (IF a.exchange # NULL THEN 2 ELSE 0)
        + (IF a.asset_confidence >= 80 THEN 4 ELSE 0)
    IN  IF score < MaxScoreUnits THEN score ELSE MaxScoreUnits

_calculate_quality_score(a) ==
    LET score ==
          (IF a.company_name # NULL THEN 4 ELSE 0)
        + (IF a.asset_type # NULL /\ a.asset_type # "OTHER" THEN 8 ELSE 0)
        + (IF a.sector # NULL THEN 6 ELSE 0)
        + (IF a.industry # NULL THEN 6 ELSE 0)
        + (IF a.country # NULL THEN 4 ELSE 0)
        + (IF a.market_cap # 0 THEN 4 ELSE 0)
        + (IF a.currency # NULL THEN 2 ELSE 0)
        + (IF a.exchange # NULL THEN 2 ELSE 0)
        + (IF a.asset_confidence > 80 THEN 4 ELSE 0)
    IN  IF score < MaxScoreUnits THEN score ELSE MaxScoreUnits

--------------------------------------------------------------------------
(* The info fetch loop of comprehensive_ticker_analysis: one provider      *)
(* answer per attempt.  An answer is an exception (exc404, exc429,         *)
(* excOther) or a payload together with the answer of the history probe    *)
(* ticker.history(period='1d'): ok, empty, delisted (it raises a           *)
(* "delisted"/"no data found" error) or error (it raises anything else).   *)

HistoryAnswers == {"ok", "empty", "delisted", "error"}

Response(kind, info, hist) == [kind |-> kind, info |-> info, hist |-> hist]

Responses ==
    {Response(k, NoInfo, "ok") : k \in {"exc404", "exc429", "excOther"}}
    \cup {Response("info", p, h) : p \in Payloads, h \in HistoryAnswers}

\* the loop's variables before the first attempt
FetchStart ==
    [attempt |-> 0, info |-> NoInfo, fetch_success |-> FALSE, fetch_errors |-> <<>>,
     is_404_failed |-> FALSE, sleeps |-> <<>>, calls |-> 0, running |-> TRUE]

\* checks 1 to 3 on a payload: is it a 404 / delisted answer?
is_404_or_delisted(info, hist) ==
    LET check1 == InfoLen(info) = 1 /\ info.peg
        check2 == ~(info.price \/ info.shortName # NULL \/ info.longName # NULL)
    IN  \/ check1
        \/ check2
        \/ hist \in {"empty", "delisted"}

Pow2(n) == IF n = 0 THEN 1 ELSE IF n = 1 THEN 2 ELSE IF n = 2 THEN 4 ELSE 8

\* (2 ** attempt) * 10
backoff_time(attempt) == Pow2(attempt) * BackoffBase

\* variant: every rate-limited attempt is followed by a wait
RetryAlways(attempt) == TRUE

\* whether a rate-limited attempt is followed by another one
RetryAllowed(attempt) == attempt < max_retries - 1

\* variant: a 404 answer is followed by the next attempt
Continue404(st) ==
    [st EXCEPT !.attempt = @ + 1, !.running = (st.attempt + 1 < max_retries)]

\* break: a 404 answer ends the retry loop
Break404(st) == [st EXCEPT !.running = FALSE]

\* one pass through the body of  for attempt in range(max_retries)
FetchAttempt(st, r) ==
    LET called == [st EXCEPT !.calls = @ + 1]
        stop == [called EXCEPT !.running = FALSE]
        stop404 == Break404(called)
    IN  CASE r.kind = "info" ->
               IF is_404_or_delisted(r.info, r.hist)
               THEN [stop404 EXCEPT !.info = r.info,
                                 !.fetch_errors = Append(@, "404_NOT_FOUND"),
                                 !.fetch_success = FALSE, !.is_404_failed = TRUE]
               ELSE IF InfoLen(r.info) > 0
               THEN [stop EXCEPT !.info = r.info, !.fetch_success = TRUE]
               ELSE [stop EXCEPT !.info = r.info,
                                 !.fetch_errors = Append(@, "EMPTY_INFO_RETURNED"),
                                 !.fetch_success = FALSE]
          [] r.kind = "exc404" ->
               [stop404 EXCEPT !.fetch_errors = Append(@, "404_NOT_FOUND"),
                            !.fetch_success = FALSE, !.is_404_failed = TRUE]
          [] r.kind = "exc429" ->
               IF RetryAllowed(st.attempt)
               THEN [called EXCEPT !.sleeps = Append(@, backoff_time(st.attempt)),
                                   !.attempt = @ + 1,
                                   !.running = (st.attempt + 1 < max_retries)]
               ELSE [stop EXCEPT !.fetch_errors = Append(@, "RATE_LIMIT_EXCEEDED"),
                                 !.fetch_success = FALSE]
          [] OTHER ->
               [stop EXCEPT !.fetch_errors = Append(@, "API_ERROR")]

\* the steps after the loop: extraction and scoring
AnalysisResult(symbol, st) ==
    LET c == _extract_company_data(st.info)
        a == _extract_asset_classification(st.info, symbol)
        s == _extract_sector_industry(st.info)
        g == _extract_geographic_data(st.info, symbol)
        f == _extract_financial_metrics(st.info)
        r == [symbol |-> symbol, fetch_success |-> st.fetch_success,
              fetch_errors |-> st.fetch_errors, is_404_failed |-> st.is_404_failed,
              data_source |-> "yfinance_comprehensive",
              company_name |-> c.company_name, exchange |-> c.exchange,
              currency |-> c.currency, is_active |-> c.is_active,
              asset_type |-> a.asset_type, asset_confidence |-> a.asset_confidence,
              sector |-> s.sector, industry |-> s.industry,
              sector_key |-> s.sector_key, industry_key |-> s.industry_key,
              country |-> g.country, country_code |-> g.country_code,
              region |-> g.region, market_cap |-> f.market_cap,
              data_quality_score |-> 0]
    IN  [r EXCEPT !.data_quality_score = _calculate_quality_score(r)]

RECURSIVE RunFetch(_, _)
RunFetch(st, script) ==
    IF ~st.running \/ script = <<>> THEN st
    ELSE RunFetch(FetchAttempt(st, Head(script)), Tail(script))

\* the whole call on a script of provider answers, one per attempt
comprehensive_ticker_analysis(symbol, script) ==
    AnalysisResult(symbol, RunFetch(FetchStart, script))


--------------------------------------------------------------------------
(* Extraction on the lookup side: EnrichedDataService                      *)

\* the answers of SectorAnalyzer.enhance_stock_with_sector_data; raised is
\* an exception of its cache query, which it does not catch
SectorAnswers ==
    {[raised |-> TRUE, success |-> FALSE, sector |-> NULL, industry |-> NULL,
      sector_key |-> NULL, industry_key |-> NULL],
     [raised |-> FALSE, success |-> FALSE, sector |-> NULL, industry |-> NULL,
      sector_key |-> NULL, industry_key |-> NULL],
     [raised |-> FALSE, success |-> TRUE, sector |-> NULL, industry |-> NULL,
      sector_key |-> NULL, industry_key |-> NULL],
     [raised |-> FALSE, success |-> TRUE, sector |-> "Technology", industry |-> "Software",
      sector_key |-> "technology", industry_key |-> "software"]}

\* sum(1 for field in [...] if field) / 8, in fortieths
FilledScore(d) ==
    LET filled ==
          (IF d.company_name # NULL THEN 1 ELSE 0)
        + (IF d.asset_type # "OTHER" THEN 1 ELSE 0)
        + (IF d.sector # NULL THEN 1 ELSE 0)
        + (IF d.industry # NULL THEN 1 ELSE 0)
        + (IF d.country # NULL THEN 1 ELSE 0)
        + (IF d.market_cap # 0 THEN 1 ELSE 0)
        + (IF d.currency # NULL THEN 1 ELSE 0)
        + (IF d.exchange # NULL THEN 1 ELSE 0)
    IN  IF filled * 5 < 40 THEN filled * 5 ELSE 40

_extract_comprehensive_api_data(symbol, info) ==
    LET company_name == IF info.longName # NULL THEN info.longName ELSE info.shortName
        qt == QuoteType(info)
        ln == IF company_name = NULL THEN "" ELSE company_name
        a == IF qt = "ETF" \/ NameContains(ln, "ETF")
             THEN [asset_type |-> "ETF", asset_confidence |-> 95]
             ELSE IF qt = "MUTUALFUND"
             THEN [asset_type |-> "MUTUAL_FUND", asset_confidence |-> 95]
             ELSE IF qt = "EQUITY" \/ qt = "STOCK"
             THEN IF NameContains(ln, "REIT")
                  THEN [asset_type |-> "REIT", asset_confidence |-> 90]
                  ELSE IF NameContains(ln, "PREFERRED") \/ EndsWith(symbol, ".PR")
                  THEN [asset_type |-> "PREFERRED", asset_confidence |-> 90]
                  ELSE [asset_type |-> "STOCK", asset_confidence |-> 80]
             ELSE IF EndsWith(symbol, ".WT") \/ EndsWith(symbol, ".W")
             THEN [asset_type |-> "WARRANT", asset_confidence |-> 85]
             ELSE [asset_type |-> "OTHER", asset_confidence |-> 30]
        country == InferCountry(info, symbol)
        d == [symbol |-> symbol, company_name |-> company_name,
              exchange |-> info.exchange,
              asset_type |-> a.asset_type, asset_confidence |-> a.asset_confidence,
              sector |-> info.sector, industry |-> info.industry,
              sector_key |-> GenerateKey(info.sector),
              industry_key |-> GenerateKey(info.industry),
              country |-> country, country_code |-> country_codes(country),
              region |-> country_to_region(country),
              market_cap |-> info.marketCap,
              currency |-> IF info.currency = NULL THEN "USD" ELSE info.currency,
              is_active |-> TRUE, data_quality_score |-> 0,
              data_source |-> "webapp_yfinance_fallback",
              success |-> FALSE, from_database |-> FALSE, version |-> 0]
        q == FilledScore(d)
    IN  [d EXCEPT !.data_quality_score = q, !.success = (q > 8)]

NoApiData == _extract_comprehensive_api_data(NULL, NoInfo)

\* the answer of the outer except clause of _fetch_from_api
ApiError(symbol) ==
    [NoApiData EXCEPT !.symbol = symbol, !.success = FALSE,
                      !.data_source = "webapp_api_error",
                      !.data_quality_score = 0]

\* _fetch_from_api: the payload (an exception of ticker.info leaves {}) and,
\* when the result is unsuccessful or below 0.3, the sector fallback; an
\* exception that escapes the fallback gives the error answer
_fetch_from_api(symbol, info, sector_data) ==
    LET api == _extract_comprehensive_api_data(symbol, info)
        fallback == ~api.success \/ api.data_quality_score < 12
    IN  IF fallback /\ sector_data.raised
        THEN ApiError(symbol)
        ELSE IF fallback /\ sector_data.success
        THEN LET m == [api EXCEPT !.sector = sector_data.sector,
                                  !.industry = sector_data.industry,
                                  !.sector_key = sector_data.sector_key,
                                  !.industry_key = sector_data.industry_key,
                                  !.success = TRUE]
             IN  [m EXCEPT !.data_quality_score = FilledScore(m)]
        ELSE api

--------------------------------------------------------------------------
(* Fingerprints.  Each writer hashes str(sorted(key_data.items())); the    *)
(* digest is modelled by that sorted item list.                            *)

\* the keys of the two key_data dictionaries in str order (the order
\* sorted() puts the items in)
AlphaKeys ==
    <<"asset_type", "company_name", "country", "currency", "industry",
      "is_active", "market_cap", "region", "sector">>

KeyRank(key) == CHOOSE i \in 1..Len(AlphaKeys) : AlphaKeys[i] = key

\* one step of sorted(): the item put in its place among sorted items
RECURSIVE InsertItem(_, _)
InsertItem(item, sorted) ==
    IF sorted = <<>> THEN <<item>>
    ELSE IF KeyRank(item[1]) <= KeyRank(Head(sorted)[1])
    THEN <<item>> \o sorted
    ELSE <<Head(sorted)>> \o InsertItem(item, Tail(sorted))

\* sorted(key_data.items())
RECURSIVE SortedItems(_)
SortedItems(items) ==
    IF items = <<>> THEN <<>>
    ELSE InsertItem(Head(items), SortedItems(Tail(items)))

\* variant: the items are hashed in the order of the dictionary
DigestUnsorted(items) == items

\* hashlib.sha256(str(sorted(key_data.items())).encode()).hexdigest()
Digest(items) == SortedItems(items)

\* key_data of update_enriched_data, in the order of the dict literal
BatchKeyData(d) ==
    << <<"asset_type", d.asset_type>>, <<"sector", d.sector>>,
       <<"industry", d.industry>>, <<"country", d.country>>,
       <<"market_cap", d.market_cap>>, <<"company_name", d.company_name>> >>

\* key_data of calculate_data_hash, in the order of the dict literal
OrmKeyData(d) ==
    << <<"asset_type", d.asset_type>>, <<"sector", d.sector>>,
       <<"industry", d.industry>>, <<"country", d.country>>,
       <<"region", d.region>>, <<"market_cap", d.market_cap>>,
       <<"currency", d.currency>>, <<"is_active", d.is_active>> >>

\* update_enriched_data: six keys
BatchHash(d) ==
    << <<"asset_type", d.asset_type>>, <<"company_name", d.company_name>>,
       <<"country", d.country>>, <<"industry", d.industry>>,
       <<"market_cap", d.market_cap>>, <<"sector", d.sector>> >>

\* EnrichedTickerData.calculate_data_hash: eight keys
calculate_data_hash(d) ==
    << <<"asset_type", d.asset_type>>, <<"country", d.country>>,
       <<"currency", d.currency>>, <<"industry", d.industry>>,
       <<"is_active", d.is_active>>, <<"market_cap", d.market_cap>>,
       <<"region", d.region>>, <<"sector", d.sector>> >>


--------------------------------------------------------------------------
(* State *)

BatchWorkers == {"b1", "b2"}
LookupWorkers == {"w1"}

VARIABLES
    store,   \* the rows of enriched_ticker_data
    now,     \* NOW() / timezone.now(), in days
    ticks,   \* clock advances so far
    bw,      \* per batch process: its place in update_enriched_data
    lw,      \* per web request: its place in get_ticker_info
    ret,     \* what the call that returned last returned
    fetch,   \* the info fetch loop run on its own: its variables and answers
    queue,   \* stale_tickers of process_comprehensive_batch still to process
    sel,     \* a get_stale_tickers call on its own: its arguments and result
    req,     \* a get_ticker_info call on its own: its inputs and outcome
    cyc,     \* execute_comprehensive_enrichment run on its own: its loop variables
    fp,      \* an upsert on its own: its writer, the field that differs, the table before
    hs,      \* a fingerprint computation on its own: its fields, their order, the digests
    qs       \* a _calculate_quality_score call on its own: its input and the score

vars == <<store, now, ticks, bw, lw, ret, fetch, queue, sel, req, cyc, fp, hs, qs>>

\* the days the clock advances by in one step: past the staleness window
TickSteps == {8}

--------------------------------------------------------------------------
(* The table enriched_ticker_data.  A NULL fetch_errors is the empty list  *)
(* (the batch writer stores NULL for an empty list, never '[]').           *)

RowsOf(rows, symbol) == {r \in rows : r.symbol = symbol}

\* ORDER BY version DESC LIMIT 1 / order_by('-version').first()
LatestRows(rows, symbol) ==
    {r \in RowsOf(rows, symbol) : \A q \in RowsOf(rows, symbol) : q.version <= r.version}

\* faulty variant of NextVersion: the next number is taken one too far
NextVersionGap(rows, symbol) ==
    IF RowsOf(rows, symbol) = {} THEN 1
    ELSE (CHOOSE v \in {r.version : r \in RowsOf(rows, symbol)} :
            \A r \in RowsOf(rows, symbol) : r.version <= v) + 2

\* COALESCE(MAX(version), 0) + 1
NextVersion(rows, symbol) ==
    IF RowsOf(rows, symbol) = {} THEN 1
    ELSE (CHOOSE v \in {r.version : r \in RowsOf(rows, symbol)} :
            \A r \in RowsOf(rows, symbol) : r.version <= v) + 1

\* faulty variant of UniqueOk: the table without its unique constraint
UniqueOff(rows, symbol, version) == TRUE

\* unique_together = [['symbol', 'version']]: may this row be inserted?
UniqueOk(rows, symbol, version) ==
    ~\E r \in rows : r.symbol = symbol /\ r.version = version

\* faulty variant of Like404: a pattern that matches every stored error
LikeAnyError(r) == r.fetch_errors # <<>>

\* fetch_errors::text LIKE '%404_NOT_FOUND%'  (NULL when fetch_errors is NULL)
Like404(r) == \E i \in 1..Len(r.fetch_errors) : r.fetch_errors[i] = "404_NOT_FOUND"

NewRow(symbol, version, d, src, success, errors, hash, first, t) ==
    [symbol |-> symbol, version |-> version,
     exchange |-> d.exchange, company_name |-> d.company_name,
     asset_type |-> d.asset_type, asset_confidence |-> d.asset_confidence,
     sector |-> d.sector, industry |-> d.industry,
     sector_key |-> d.sector_key, industry_key |-> d.industry_key,
     country |-> d.country, country_code |-> d.country_code,
     region |-> d.region, market_cap |-> d.market_cap,
     currency |-> d.currency, is_active |-> d.is_active,
     data_source |-> src, data_quality_score |-> d.data_quality_score,
     fetch_success |-> success, fetch_errors |-> errors,
     first_loaded_at |-> first, last_updated_at |-> t,
     last_checked_at |-> t, data_changed_at |-> t, data_hash |-> hash]

\* faulty variant of TouchRows: a save() without update_fields, which lets
\* auto_now rewrite last_updated_at as well
TouchRowsAutoNow(rows, symbol, version, t) ==
    {IF r.symbol = symbol /\ r.version = version
     THEN [r EXCEPT !.last_checked_at = t, !.last_updated_at = t] ELSE r : r \in rows}

\* UPDATE ... SET last_checked_at = NOW() WHERE symbol = .. AND version = ..
TouchRows(rows, symbol, version, t) ==
    {IF r.symbol = symbol /\ r.version = version
     THEN [r EXCEPT !.last_checked_at = t] ELSE r : r \in rows}

--------------------------------------------------------------------------
(* get_stale_tickers(days, limit, min_quality)                             *)

\* the WHERE clause on one joined row e of symbol l
StaleRow(e, days, min_quality) ==
    \/ e.last_checked_at < now - days
    \/ (e.fetch_success = FALSE /\ e.fetch_errors # <<>> /\ ~Like404(e))
    \/ e.data_quality_score < min_quality

\* faulty variant of SkipHighQuality: the clause left out of the query
SkipNone(rows, symbol, min_quality) == FALSE

\* NOT EXISTS e2: recent high-quality data
SkipHighQuality(rows, symbol, min_quality) ==
    \E e2 \in RowsOf(rows, symbol) :
        e2.data_quality_score >= min_quality /\ e2.last_checked_at >= now - GraceDays

\* faulty variant of Skip404: only the latest version is looked at
Skip404Latest(rows, symbol) == \E e3 \in LatestRows(rows, symbol) : Like404(e3)

\* NOT EXISTS e3: a 404 tag in any version
Skip404(rows, symbol) == \E e3 \in RowsOf(rows, symbol) : Like404(e3)

Eligible(rows, symbol, days, min_quality) ==
    /\ \/ RowsOf(rows, symbol) = {}
       \/ \E e \in RowsOf(rows, symbol) : StaleRow(e, days, min_quality)
    /\ ~SkipHighQuality(rows, symbol, min_quality)
    /\ ~Skip404(rows, symbol)

\* faulty variant of TakeEligible: the query without its LIMIT
RECURSIVE TakeAll(_, _, _, _, _)
TakeAll(rows, i, days, limit, min_quality) ==
    IF i > Len(SymbolSeq) THEN <<>>
    ELSE IF Eligible(rows, SymbolSeq[i], days, min_quality)
         THEN <<SymbolSeq[i]>> \o TakeAll(rows, i + 1, days, limit, min_quality)
         ELSE TakeAll(rows, i + 1, days, limit, min_quality)

RECURSIVE TakeEligible(_, _, _, _, _)
TakeEligible(rows, i, days, limit, min_quality) ==
    IF i > Len(SymbolSeq) \/ limit = 0 THEN <<>>
    ELSE IF Eligible(rows, SymbolSeq[i], days, min_quality)
         THEN <<SymbolSeq[i]>> \o TakeEligible(rows, i + 1, days, limit - 1, min_quality)
         ELSE TakeEligible(rows, i + 1, days, limit, min_quality)

\* ORDER BY l.symbol LIMIT limit
get_stale_tickers(rows, days, limit, min_quality) ==
    TakeEligible(rows, 1, days, limit, min_quality)


--------------------------------------------------------------------------
(* Inputs: the provider answers the writers are fed *)

Ok(info) == <<Response("info", info, "ok")>>

RateLimited3 ==
    <<Response("exc429", NoInfo, "ok"), Response("exc429", NoInfo, "ok"),
      Response("exc429", NoInfo, "ok")>>

\* one script per outcome of the fetch loop: data, changed data, a 404
\* answer, a payload whose history probe is empty, an exhausted rate limit,
\* another error
BatchScripts ==
    {Ok(TechInfo), Ok(HealthInfo), <<Response("exc404", NoInfo, "ok")>>,
     <<Response("info", TechInfo, "empty")>>, RateLimited3,
     <<Response("excOther", NoInfo, "ok")>>}

LookupInfos == {TechInfo, NoInfo}

\* the symbol the lookup service and the racing writers work on
HotSymbols == {"ABC"}
\* the inputs of the writers that race for one symbol
RaceScripts == {Ok(TechInfo), Ok(HealthInfo)}
RaceInfos == {TechInfo, TechEurInfo}

NoData == comprehensive_ticker_analysis(NULL, <<>>)

BatchIdle ==
    [pc |-> "idle", symbol |-> NULL, data |-> NoData, data_hash |-> <<>>,
     found |-> FALSE, existing_hash |-> <<>>, existing_version |-> 0,
     new_version |-> 0, result |-> "none"]

LookupIdle ==
    [pc |-> "idle", symbol |-> NULL, api |-> NoApiData, new_hash |-> <<>>,
     changed |-> FALSE, found |-> FALSE, latest_version |-> 0,
     new_version |-> 0, result |-> "none"]

\* a call returns.  update_enriched_data and _store_enriched_data return a
\* bool: True after a touch ("touched") or an insert ("inserted"), False
\* after an exception ("failed"); get_ticker_info answers from the database
\* ("database") or with an unsuccessful api_data ("api_failed")
Return(w, symbol, value) == value

\* no get_stale_tickers call has been made on its own
SelIdle == [called |-> FALSE, days |-> 0, limit |-> 0, min_quality |-> 0,
            result |-> <<>>]

\* the answer of get_ticker_info as its caller reads it: the enrichment
\* fields and the source metadata (the API answers carry no version: 0)
Answer(d, version, data_source, success, from_database) ==
    [symbol |-> d.symbol, company_name |-> d.company_name,
     exchange |-> d.exchange, asset_type |-> d.asset_type,
     asset_confidence |-> d.asset_confidence,
     sector |-> d.sector, industry |-> d.industry,
     sector_key |-> d.sector_key, industry_key |-> d.industry_key,
     country |-> d.country, country_code |-> d.country_code,
     region |-> d.region, market_cap |-> d.market_cap,
     currency |-> d.currency, is_active |-> d.is_active,
     version |-> version, data_source |-> data_source,
     success |-> success, from_database |-> from_database]

NoAnswer == Answer(NoApiData, 0, "none", FALSE, FALSE)

\* no get_ticker_info call has been made on its own
ReqIdle ==
    [called |-> FALSE, symbol |-> NULL, force_refresh |-> FALSE,
     read_fails |-> FALSE, provider |-> "none", write_fails |-> FALSE,
     provider_called |-> FALSE, raised |-> FALSE, response |-> NoAnswer,
     before |-> {}]

NoStats == [processed |-> 0, updated |-> 0, errors |-> 0, high_quality |-> 0]

NoItem == [symbol |-> NULL, fetch_success |-> FALSE, fetch_errors |-> <<>>,
           success |-> FALSE]

\* execute_comprehensive_enrichment has not started.  selector_calls,
\* sleeps, slept_after, nonempty and empty_at record what the run did: the
\* get_stale_tickers calls, the time.sleep(30) calls and the batches they
\* followed, the batches that processed a ticker, the batch whose
\* selection was empty (0: none)
CycIdle ==
    [pc |-> "idle", batch_size |-> 0, batch_count |-> 0,
     total_stats |-> NoStats, stats |-> NoStats, item |-> NoItem,
     selector_calls |-> 0, sleeps |-> 0, slept_after |-> {}, nonempty |-> {},
     empty_at |-> 0, query_failed |-> FALSE, handled |-> 0]

\* the fields _calculate_quality_score reads
ScoreInput(company_name, asset_type, sector, industry, country, market_cap, currency, exchange, asset_confidence) ==
    [company_name |-> company_name, asset_type |-> asset_type,
     sector |-> sector, industry |-> industry, country |-> country,
     market_cap |-> market_cap, currency |-> currency, exchange |-> exchange,
     asset_confidence |-> asset_confidence]

\* no score has been computed on its own
QsIdle == [called |-> FALSE,
           data |-> ScoreInput(NULL, NULL, NULL, NULL, NULL, 0, NULL, NULL, 0),
           score |-> 0]

\* no fingerprint has been computed on its own
HsIdle == [called |-> FALSE, writer |-> "none", symbol |-> NULL,
           key_data |-> <<>>, supplied |-> <<>>, first |-> <<>>,
           second |-> <<>>, reordered |-> <<>>, stored |-> <<>>]

\* no upsert has been made on its own
FpIdle == [called |-> FALSE, writer |-> "none", field |-> "none",
           symbol |-> NULL, before |-> {}]

FetchIdle == [st |-> [FetchStart EXCEPT !.running = FALSE], answers |-> <<>>,
              symbol |-> NULL]

Init ==
    /\ store = {}
    /\ now = 0
    /\ ticks = 0
    /\ bw = [w \in BatchWorkers |-> BatchIdle]
    /\ lw = [w \in LookupWorkers |-> LookupIdle]
    /\ ret = "none"
    /\ fetch = FetchIdle
    /\ queue = <<>>
    /\ sel = SelIdle
    /\ req = ReqIdle
    /\ cyc = CycIdle
    /\ fp = FpIdle
    /\ hs = HsIdle
    /\ qs = QsIdle

\* room for one more row (the bound on the table's size)
Room(max) == Cardinality(store) < max

\* no call is under way
Quiet ==
    /\ \A w \in BatchWorkers : bw[w].pc = "idle"
    /\ \A w \in LookupWorkers : lw[w].pc = "idle"

--------------------------------------------------------------------------
(* The clock *)

Tick ==
    /\ ticks < MaxTicks
    /\ \E d \in TickSteps : now' = now + d
    /\ ticks' = ticks + 1
    /\ UNCHANGED <<store, bw, lw, ret, fetch, queue, sel, req, cyc, fp, hs, qs>>

--------------------------------------------------------------------------
(* ComprehensiveEnrichmentManager.update_enriched_data, statement by       *)
(* statement.  Each process has its own connection; the transaction is     *)
(* READ COMMITTED, so every statement sees what is committed when it runs. *)

\* process_ticker_batch: the analysis of one symbol, then the call of
\* update_enriched_data up to the computation of data_hash
BatchAnalyze(w, symbols, scripts) ==
    /\ bw[w].pc = "idle"
    /\ \E symbol \in symbols, script \in scripts :
         LET d == comprehensive_ticker_analysis(symbol, script)
         IN  bw' = [bw EXCEPT ![w] =
                      [BatchIdle EXCEPT !.pc = "check", !.symbol = symbol,
                                        !.data = d, !.data_hash = BatchHash(d)]]
    /\ UNCHANGED <<store, now, ticks, lw, ret, fetch, sel, req, cyc, fp, hs, qs>>

\* check_query: SELECT data_hash, version ... ORDER BY version DESC LIMIT 1
BatchCheck(w) ==
    /\ bw[w].pc = "check"
    /\ IF RowsOf(store, bw[w].symbol) = {}
       THEN bw' = [bw EXCEPT ![w].pc = "version"]
       ELSE \E e \in LatestRows(store, bw[w].symbol) :
              bw' = [bw EXCEPT ![w].found = TRUE,
                               ![w].existing_hash = e.data_hash,
                               ![w].existing_version = e.version,
                               ![w].pc = IF e.data_hash = bw[w].data_hash
                                         THEN "touch" ELSE "version"]
    /\ UNCHANGED <<store, now, ticks, lw, ret, fetch, queue, sel, req, cyc, fp, hs, qs>>

\* update_query and commit: data unchanged, just update timestamp
BatchTouch(w) ==
    /\ bw[w].pc = "touch"
    /\ store' = TouchRows(store, bw[w].symbol, bw[w].existing_version, now)
    /\ bw' = [bw EXCEPT ![w] = BatchIdle]
    /\ ret' = Return(w, bw[w].symbol, "touched")
    /\ UNCHANGED <<now, ticks, lw, fetch, queue, sel, req, cyc, fp, hs, qs>>

\* version_query: SELECT COALESCE(MAX(version), 0) + 1
BatchVersion(w, max) ==
    /\ bw[w].pc = "version"
    /\ Room(max)
    /\ bw' = [bw EXCEPT ![w].new_version = NextVersion(store, bw[w].symbol),
                        ![w].pc = "insert"]
    /\ UNCHANGED <<store, now, ticks, lw, ret, fetch, queue, sel, req, cyc, fp, hs, qs>>

\* the first_loaded_at of the INSERT: NOW() for version 1, else the
\* first_loaded_at of some row of the symbol (LIMIT 1 without ORDER BY)
BatchFirstLoaded(rows, symbol, new_version) ==
    IF new_version = 1 THEN {now}
    ELSE {r.first_loaded_at : r \in RowsOf(rows, symbol)}

\* the row of insert_query
BatchRow(w, first) ==
    NewRow(bw[w].symbol, bw[w].new_version, bw[w].data, bw[w].data.data_source,
           bw[w].data.fetch_success, bw[w].data.fetch_errors, bw[w].data_hash,
           first, now)

\* insert_query and commit; a violated constraint raises, the except
\* clause logs it and the function returns False
BatchInsert(w) ==
    /\ bw[w].pc = "insert"
    /\ LET firsts == BatchFirstLoaded(store, bw[w].symbol, bw[w].new_version)
       IN  IF UniqueOk(store, bw[w].symbol, bw[w].new_version) /\ firsts # {}
           THEN /\ \E first \in firsts : store' = store \cup {BatchRow(w, first)}
                /\ bw' = [bw EXCEPT ![w] = BatchIdle]
                /\ ret' = Return(w, bw[w].symbol, "inserted")
           ELSE /\ store' = store
                /\ bw' = [bw EXCEPT ![w] = BatchIdle]
                /\ ret' = Return(w, bw[w].symbol, "failed")
    /\ UNCHANGED <<now, ticks, lw, fetch, queue, sel, req, cyc, fp, hs, qs>>

--------------------------------------------------------------------------
(* EnrichedDataService.get_ticker_info and EnrichedTickerData.             *)
(* create_new_version, query by query.  The ORM runs in autocommit mode:   *)
(* every query is its own transaction.                                     *)

\* EnrichedTickerData.is_stale
is_stale(r) == r.last_checked_at < now - StaleDays

\* variant: the latest row is served whether or not its fetch succeeded
FreshRowsFailedToo(rows, symbol) ==
    {r \in LatestRows(rows, symbol) : ~is_stale(r)}

\* _get_from_database: the latest row, if it is fresh and successful
FreshRows(rows, symbol) ==
    {r \in LatestRows(rows, symbol) : ~is_stale(r) /\ r.fetch_success}

\* get_ticker_info up to the call of create_new_version: the database
\* read, the provider fallback, and the decision to store
LookupGet(w, symbols, infos) ==
    /\ lw[w].pc = "idle"
    /\ \E symbol \in symbols, force_refresh \in BOOLEAN :
         IF ~force_refresh /\ FreshRows(store, symbol) # {}
         THEN /\ lw' = lw
              /\ ret' = Return(w, symbol, "database")
         ELSE \E info \in infos, sector_data \in SectorAnswers :
                LET api == _fetch_from_api(symbol, info, sector_data)
                IN  IF api.success
                    THEN /\ lw' = [lw EXCEPT ![w] =
                                     [LookupIdle EXCEPT
                                        !.pc = "has_changed", !.symbol = symbol,
                                        !.api = api,
                                        !.new_hash = calculate_data_hash(api)]]
                         /\ ret' = ret
                    ELSE /\ lw' = lw
                         /\ ret' = Return(w, symbol, "api_failed")
    /\ UNCHANGED <<store, now, ticks, bw, fetch, queue, sel, req, cyc, fp, hs, qs>>

\* has_data_changed: the first get_latest_version and the comparison
LookupHasChanged(w) ==
    /\ lw[w].pc = "has_changed"
    /\ IF RowsOf(store, lw[w].symbol) = {}
       THEN lw' = [lw EXCEPT ![w].changed = TRUE, ![w].pc = "latest"]
       ELSE \E latest \in LatestRows(store, lw[w].symbol) :
              lw' = [lw EXCEPT ![w].changed = (latest.data_hash # lw[w].new_hash),
                               ![w].pc = "latest"]
    /\ UNCHANGED <<store, now, ticks, bw, ret, fetch, queue, sel, req, cyc, fp, hs, qs>>

\* the second get_latest_version, of either branch of create_new_version
LookupLatest(w, max) ==
    /\ lw[w].pc = "latest"
    /\ lw[w].changed => Room(max)
    /\ IF RowsOf(store, lw[w].symbol) = {}
       THEN lw' = [lw EXCEPT ![w].found = FALSE, ![w].new_version = 1,
                             ![w].pc = "insert"]
       ELSE \E latest \in LatestRows(store, lw[w].symbol) :
              lw' = [lw EXCEPT ![w].found = TRUE,
                               ![w].latest_version = latest.version,
                               ![w].new_version = latest.version + 1,
                               ![w].pc = IF lw[w].changed THEN "insert" ELSE "touch"]
    /\ UNCHANGED <<store, now, ticks, bw, ret, fetch, queue, sel, req, cyc, fp, hs, qs>>

\* latest.save(update_fields=['last_checked_at']): an UPDATE of that row
LookupTouch(w) ==
    /\ lw[w].pc = "touch"
    /\ store' = TouchRows(store, lw[w].symbol, lw[w].latest_version, now)
    /\ lw' = [lw EXCEPT ![w] = LookupIdle]
    /\ ret' = Return(w, lw[w].symbol, "touched")
    /\ UNCHANGED <<now, ticks, bw, fetch, queue, sel, req, cyc, fp, hs, qs>>

\* auto_now_add: the first_loaded_at of a row the ORM inserts
OrmFirstLoaded(rows, symbol) == now

\* the row of new_record.save(), with the storage_data of _store_enriched_data
OrmRow(w) ==
    NewRow(lw[w].symbol, lw[w].new_version, lw[w].api, "webapp_api_fallback",
           TRUE, <<>>, lw[w].new_hash, OrmFirstLoaded(store, lw[w].symbol), now)

\* new_record.save(): the INSERT; an IntegrityError of the unique
\* constraint is caught by _store_enriched_data, which returns False
LookupInsert(w) ==
    /\ lw[w].pc = "insert"
    /\ IF UniqueOk(store, lw[w].symbol, lw[w].new_version)
       THEN /\ store' = store \cup {OrmRow(w)}
            /\ lw' = [lw EXCEPT ![w] = LookupIdle]
            /\ ret' = Return(w, lw[w].symbol, "inserted")
       ELSE /\ store' = store
            /\ lw' = [lw EXCEPT ![w] = LookupIdle]
            /\ ret' = Return(w, lw[w].symbol, "failed")
    /\ UNCHANGED <<now, ticks, bw, fetch, queue, sel, req, cyc, fp, hs, qs>>

--------------------------------------------------------------------------
(* Spec: the batch refresher and the lookup service, one call at a time,   *)
(* with the clock                                                          *)

\* process_comprehensive_batch: stale_tickers = get_stale_tickers(days=7,
\* limit=batch_size, min_quality=0.8), handed to process_ticker_batch
BatchSelect ==
    /\ Quiet
    /\ queue = <<>>
    /\ queue' = get_stale_tickers(store, StaleDays, batch_size, MinQuality)
    /\ queue' # <<>>
    /\ UNCHANGED <<store, now, ticks, bw, lw, ret, fetch, sel, req, cyc, fp, hs, qs>>

\* process_ticker_batch: the next symbol of the list
CallBatch ==
    /\ Quiet
    /\ queue # <<>>
    /\ BatchAnalyze("b1", {Head(queue)}, BatchScripts)
    /\ queue' = Tail(queue)

CallLookup == Quiet /\ LookupGet("w1", HotSymbols, LookupInfos)

Next ==
    \/ Tick
    \/ BatchSelect
    \/ CallBatch
    \/ BatchCheck("b1")
    \/ BatchTouch("b1")
    \/ BatchVersion("b1", MaxRows)
    \/ BatchInsert("b1")
    \/ CallLookup
    \/ LookupHasChanged("w1")
    \/ LookupLatest("w1", MaxRows)
    \/ LookupTouch("w1")
    \/ LookupInsert("w1")

Spec == Init /\ [][Next]_vars

--------------------------------------------------------------------------
(* SpecRace: two batch processes and a web request upsert concurrently.   *)
(* Each batch process works through a list it selected earlier.           *)

RaceNext ==
    \/ \E w \in BatchWorkers :
         BatchAnalyze(w, HotSymbols, RaceScripts) /\ UNCHANGED queue
    \/ \E w \in BatchWorkers : BatchCheck(w)
    \/ \E w \in BatchWorkers : BatchTouch(w)
    \/ \E w \in BatchWorkers : BatchVersion(w, MaxRaceRows)
    \/ \E w \in BatchWorkers : BatchInsert(w)
    \/ \E w \in LookupWorkers : LookupGet(w, HotSymbols, RaceInfos)
    \/ \E w \in LookupWorkers : LookupHasChanged(w)
    \/ \E w \in LookupWorkers : LookupLatest(w, MaxRaceRows)
    \/ \E w \in LookupWorkers : LookupTouch(w)
    \/ \E w \in LookupWorkers : LookupInsert(w)

SpecRace == Init /\ [][RaceNext]_vars

--------------------------------------------------------------------------
(* SpecClassifier: the info fetch loop of comprehensive_ticker_analysis,   *)
(* one provider answer per step                                            *)

\* the call starts: info = {}, attempt 0
FetchBegin ==
    /\ ~fetch.st.running
    /\ \E symbol \in Symbols :
         fetch' = [st |-> FetchStart, answers |-> <<>>, symbol |-> symbol]
    /\ UNCHANGED <<store, now, ticks, bw, lw, ret, queue, sel, req, cyc, fp, hs, qs>>

\* one attempt: ticker.info answers or raises
FetchAnswer ==
    /\ fetch.st.running
    /\ \E r \in Responses :
         fetch' = [fetch EXCEPT !.st = FetchAttempt(fetch.st, r),
                                !.answers = Append(@, r)]
    /\ UNCHANGED <<store, now, ticks, bw, lw, ret, queue, sel, req, cyc, fp, hs, qs>>

ClassifierNext == FetchBegin \/ FetchAnswer

SpecClassifier == Init /\ [][ClassifierNext]_vars

\* ticker.info is a blocking call: it answers or raises
SpecClassifierFair == SpecClassifier /\ WF_vars(FetchAnswer)

--------------------------------------------------------------------------
(* SpecSelector: get_stale_tickers run on tables of rows the two writers   *)
(* store, checked at times around the freshness and the grace window       *)

\* arguments of the call: days, min_quality and limit
SelectorDays == {0, StaleDays}
SelectorQualities == {MinQuality, MaxScoreUnits + 1}
SelectorLimits == {0, 1, batch_size}
\* min_quality of a call made by itself: below, at and above every score
SelectorThresholds == {0} \cup SelectorQualities

\* last_checked_at: stale, on the edge of the freshness window (neither
\* stale nor inside the grace window), on the edge of the grace window
SelTimes == {SelNow - StaleDays - 1, SelNow - StaleDays, SelNow - GraceDays}

\* a row update_enriched_data inserted at t for these provider answers
SelBatchRow(symbol, version, script, t) ==
    LET d == comprehensive_ticker_analysis(symbol, script)
    IN  NewRow(symbol, version, d, d.data_source, d.fetch_success,
               d.fetch_errors, BatchHash(d), t, t)

\* a row create_new_version inserted at t for this payload
SelOrmRow(symbol, version, info, t) ==
    LET api == _fetch_from_api(symbol, info,
                 CHOOSE a \in SectorAnswers : ~a.raised /\ ~a.success)
    IN  NewRow(symbol, version, api, "webapp_api_fallback", TRUE, <<>>,
               calculate_data_hash(api), t, t)

SelScripts ==
    {Ok(TechInfo), <<Response("exc404", NoInfo, "ok")>>,
     <<Response("info", TechInfo, "empty")>>, RateLimited3}

SelRows(symbol, version) ==
    {SelBatchRow(symbol, version, script, t) : script \in SelScripts, t \in SelTimes}
    \cup {SelOrmRow(symbol, version, NoInfo, t) : t \in SelTimes}

\* the tables of n rows at most: each row was inserted with the next
\* version of its symbol
RECURSIVE SelTables(_)
SelTables(n) ==
    IF n = 0 THEN {{}}
    ELSE LET smaller == SelTables(n - 1)
         IN  smaller \cup
             UNION {{rows \cup {r} : r \in SelRows(s, NextVersion(rows, s))} :
                      rows \in smaller, s \in Symbols}

SelectorInit ==
    /\ store \in SelTables(MaxSelRows)
    /\ now = SelNow
    /\ ticks = 0
    /\ bw = [w \in BatchWorkers |-> BatchIdle]
    /\ lw = [w \in LookupWorkers |-> LookupIdle]
    /\ ret = "none"
    /\ fetch = FetchIdle
    /\ queue = <<>>
    /\ sel = SelIdle
    /\ req = ReqIdle
    /\ cyc = CycIdle
    /\ fp = FpIdle
    /\ hs = HsIdle
    /\ qs = QsIdle

\* one call of get_stale_tickers(days, limit, min_quality)
SelectorCall ==
    /\ ~sel.called
    /\ \E days \in SelectorDays, limit \in SelectorLimits,
          min_quality \in SelectorThresholds :
         sel' = [called |-> TRUE, days |-> days, limit |-> limit,
                 min_quality |-> min_quality,
                 result |-> get_stale_tickers(store, days, limit, min_quality)]
    /\ UNCHANGED <<store, now, ticks, bw, lw, ret, fetch, queue, req, cyc, fp, hs, qs>>

SelectorNext == SelectorCall

SpecSelector == SelectorInit /\ [][SelectorNext]_vars

--------------------------------------------------------------------------
(* SpecGet: one call of EnrichedDataService.get_ticker_info on its own,    *)
(* on every table of the hot symbol, with the failures its collaborators  *)
(* can produce: the database read raising, yfinance raising or answering  *)
(* an empty info, the sector analyzer raising, the database write raising *)

\* what yfinance does: ticker.info answers a payload or {} or raises, or
\* yf.Ticker itself raises
GetProviders ==
    {[kind |-> "payload", info |-> TechInfo],
     [kind |-> "empty", info |-> NoInfo],
     [kind |-> "info_raises", info |-> NoInfo],
     [kind |-> "ticker_raises", info |-> NoInfo]}

\* _convert_to_api_format
_convert_to_api_format(enriched_data) ==
    Answer(enriched_data, enriched_data.version, "database",
           enriched_data.fetch_success, TRUE)

\* _get_from_database: the answer from the latest row if it is fresh and
\* successful, else None (the empty set)
_get_from_database(rows, symbol) ==
    {_convert_to_api_format(r) : r \in FreshRows(rows, symbol)}

\* EnrichedTickerData.create_new_version run without interleaving: the
\* touch of the latest row when the hash is unchanged, else the insert
create_new_version(rows, symbol, data) ==
    LET new_hash == calculate_data_hash(data)
        changed == \/ RowsOf(rows, symbol) = {}
                   \/ \E latest \in LatestRows(rows, symbol) :
                        latest.data_hash # new_hash
    IN  IF changed
        THEN rows \cup {NewRow(symbol, NextVersion(rows, symbol), data,
                               "webapp_api_fallback", TRUE, <<>>, new_hash,
                               OrmFirstLoaded(rows, symbol), now)}
        ELSE LET latest == CHOOSE r \in LatestRows(rows, symbol) : TRUE
             IN  TouchRows(rows, symbol, latest.version, now)

\* _store_enriched_data: the except clause swallows what the database
\* raises and nothing is written
_store_enriched_data(rows, symbol, api_data, write_fails) ==
    IF ~api_data.success \/ write_fails THEN rows
    ELSE create_new_version(rows, symbol, api_data)

\* the api_data of get_ticker_info
GetApiData(symbol, provider, sector_data) ==
    IF provider.kind = "ticker_raises" THEN ApiError(symbol)
    ELSE _fetch_from_api(symbol, provider.info, sector_data)

\* get_ticker_info: what it does to the table, whether it called the
\* provider, whether it raised, and what it returned
get_ticker_info(rows, symbol, force_refresh, read_fails, provider, sector_data, write_fails) ==
    LET db_data == _get_from_database(rows, symbol)
        api_data == GetApiData(symbol, provider, sector_data)
    IN  IF ~force_refresh /\ read_fails
        THEN [store |-> rows, provider_called |-> FALSE, raised |-> TRUE,
              response |-> NoAnswer]
        ELSE IF ~force_refresh /\ db_data # {}
        THEN [store |-> rows, provider_called |-> FALSE, raised |-> FALSE,
              response |-> CHOOSE a \in db_data : TRUE]
        ELSE [store |-> _store_enriched_data(rows, symbol, api_data, write_fails),
              provider_called |-> TRUE, raised |-> FALSE,
              response |-> Answer(api_data, 0, api_data.data_source,
                                  api_data.success, api_data.from_database)]

\* the tables the call runs on: rows of the hot symbol
GetTables == {rows \in SelTables(MaxSelRows) : \A r \in rows : r.symbol \in HotSymbols}

GetInit ==
    /\ store \in GetTables
    /\ now = SelNow
    /\ ticks = 0
    /\ bw = [w \in BatchWorkers |-> BatchIdle]
    /\ lw = [w \in LookupWorkers |-> LookupIdle]
    /\ ret = "none"
    /\ fetch = FetchIdle
    /\ queue = <<>>
    /\ sel = SelIdle
    /\ req = ReqIdle
    /\ cyc = CycIdle
    /\ fp = FpIdle
    /\ hs = HsIdle
    /\ qs = QsIdle

GetCall ==
    /\ ~req.called
    /\ \E symbol \in HotSymbols, force_refresh \in BOOLEAN, read_fails \in BOOLEAN,
          provider \in GetProviders, sector_data \in SectorAnswers,
          write_fails \in BOOLEAN :
         LET out == get_ticker_info(store, symbol, force_refresh, read_fails,
                                    provider, sector_data, write_fails)
         IN  /\ store' = out.store
             /\ req' = [called |-> TRUE, symbol |-> symbol,
                        force_refresh |-> force_refresh,
                        read_fails |-> read_fails, provider |-> provider.kind,
                        write_fails |-> write_fails,
                        provider_called |-> out.provider_called,
                        raised |-> out.raised, response |-> out.response,
                        before |-> store]
    /\ UNCHANGED <<now, ticks, bw, lw, ret, fetch, queue, sel, cyc, fp, hs, qs>>

GetNext == GetCall

SpecGet == GetInit /\ [][GetNext]_vars

--------------------------------------------------------------------------
(* SpecCycle: one run of execute_comprehensive_enrichment, alone on the    *)
(* database: the loop over the batches, and in each batch the loop of      *)
(* process_ticker_batch over the selected tickers                          *)

\* the batch_size of process_comprehensive_batch: the DAG passes 25; with
\* 1 the limit cuts the selection
CycleBatchSizes == {1, batch_size}

\* what yfinance answers for one ticker of a batch
CycleScripts ==
    {Ok(TechInfo), <<Response("exc404", NoInfo, "ok")>>, RateLimited3}

\* variant: a failed upsert keeps the touch of the latest row
FailedUpsertTouches(rows, symbol) ==
    IF RowsOf(rows, symbol) = {} THEN rows
    ELSE TouchRows(rows, symbol,
                   (CHOOSE r \in LatestRows(rows, symbol) : TRUE).version, now)

\* get_connection: an exception inside the with block rolls the
\* transaction back; nothing of the call is committed
FailedUpsert(rows, symbol) == rows

\* update_enriched_data run without interleaving: the tables it can leave
\* (the first_loaded_at of a later version is that of any row of the symbol)
update_enriched_data(rows, symbol, analysis_data) ==
    LET data_hash == BatchHash(analysis_data)
        same == {e \in LatestRows(rows, symbol) : e.data_hash = data_hash}
        new_version == NextVersion(rows, symbol)
    IN  IF same # {}
        THEN {TouchRows(rows, symbol, e.version, now) : e \in same}
        ELSE {rows \cup {NewRow(symbol, new_version, analysis_data,
                                analysis_data.data_source,
                                analysis_data.fetch_success,
                                analysis_data.fetch_errors, data_hash, first, now)} :
                first \in BatchFirstLoaded(rows, symbol, new_version)}

\* while batch_count < max_batches
LoopRuns(batch_count) == batch_count < max_batches

\* variant: the wait follows every batch
SleepAlways(batch_count) == TRUE

\* if batch_count < max_batches: don't wait after the last batch
SleepDue(batch_count) == batch_count < max_batches

\* variant: the errors of a batch are not accumulated
AddStatsNoErrors(a, b) ==
    [processed |-> a.processed + b.processed, updated |-> a.updated + b.updated,
     errors |-> a.errors,
     high_quality |-> a.high_quality + b.high_quality]

\* total_stats[k] += batch_stats.get(k, 0)
AddStats(a, b) ==
    [processed |-> a.processed + b.processed, updated |-> a.updated + b.updated,
     errors |-> a.errors + b.errors,
     high_quality |-> a.high_quality + b.high_quality]

\* the task starts: without target_tickers it returns at once
CycleStartWith(targets) ==
    /\ cyc.pc = "idle"
    /\ \E has_targets \in targets, size \in CycleBatchSizes :
         cyc' = [cyc EXCEPT !.pc = IF has_targets THEN "loop" ELSE "done",
                            !.batch_size = size]
    /\ UNCHANGED <<store, now, ticks, bw, lw, ret, fetch, queue, sel, req, fp, hs, qs>>

\* one pass of the while loop up to the selection of
\* process_comprehensive_batch; an empty selection (or a failed query,
\* which get_stale_tickers answers with []) gives processed = 0: break
CycleSelectWith(failures) ==
    /\ cyc.pc = "loop"
    /\ LoopRuns(cyc.batch_count)
    /\ \E query_fails \in failures :
         LET stale_tickers ==
               IF query_fails THEN <<>>
               ELSE get_stale_tickers(store, StaleDays, cyc.batch_size, MinQuality)
             batch_count == cyc.batch_count + 1
         IN  IF stale_tickers = <<>>
             THEN /\ cyc' = [cyc EXCEPT !.pc = "done",
                                        !.batch_count = batch_count,
                                        !.stats = NoStats,
                                        !.selector_calls = @ + 1,
                                        !.empty_at = batch_count,
                                        !.query_failed = query_fails]
                  /\ queue' = queue
             ELSE /\ cyc' = [cyc EXCEPT !.pc = "items",
                                        !.batch_count = batch_count,
                                        !.stats = NoStats,
                                        !.selector_calls = @ + 1]
                  /\ queue' = stale_tickers
    /\ UNCHANGED <<store, now, ticks, bw, lw, ret, fetch, sel, req, fp, hs, qs>>

\* process_ticker_batch: one pass of the for loop: the analysis, the
\* upsert (which the database may fail), the counters
CycleItemWith(scripts, failures) ==
    /\ cyc.pc = "items"
    /\ queue # <<>>
    /\ \E script \in scripts, db_fails \in failures :
         LET symbol == Head(queue)
             analysis_data == comprehensive_ticker_analysis(symbol, script)
             success == ~db_fails
             high == success /\ analysis_data.data_quality_score >= MinQuality
         IN  /\ IF db_fails
                THEN store' = FailedUpsert(store, symbol)
                ELSE store' \in update_enriched_data(store, symbol, analysis_data)
             /\ cyc' = [cyc EXCEPT
                          !.stats = [processed |-> @.processed + 1,
                                     updated |-> @.updated + (IF success THEN 1 ELSE 0),
                                     errors |-> @.errors + (IF success THEN 0 ELSE 1),
                                     high_quality |-> @.high_quality + (IF high THEN 1 ELSE 0)],
                          !.handled = @ + 1,
                          !.item = [symbol |-> symbol,
                                    fetch_success |-> analysis_data.fetch_success,
                                    fetch_errors |-> analysis_data.fetch_errors,
                                    success |-> success]]
    /\ queue' = Tail(queue)
    /\ UNCHANGED <<now, ticks, bw, lw, ret, fetch, sel, req, fp, hs, qs>>

\* the batch returns its stats: they are accumulated, and the wait
\* follows unless this was the last batch
CycleBatchEnd ==
    /\ cyc.pc = "items"
    /\ queue = <<>>
    /\ cyc' = [cyc EXCEPT !.pc = IF SleepDue(cyc.batch_count) THEN "sleep" ELSE "loop",
                          !.total_stats = AddStats(@, cyc.stats),
                          !.nonempty = @ \cup {cyc.batch_count},
                          !.item = NoItem]
    /\ UNCHANGED <<store, now, ticks, bw, lw, ret, fetch, queue, sel, req, fp, hs, qs>>

\* time.sleep(30)
CycleSleep ==
    /\ cyc.pc = "sleep"
    /\ cyc' = [cyc EXCEPT !.pc = "loop", !.sleeps = @ + 1,
                          !.slept_after = @ \cup {cyc.batch_count}]
    /\ UNCHANGED <<store, now, ticks, bw, lw, ret, fetch, queue, sel, req, fp, hs, qs>>

\* the while condition fails: the totals are returned
CycleEnd ==
    /\ cyc.pc = "loop"
    /\ ~LoopRuns(cyc.batch_count)
    /\ cyc' = [cyc EXCEPT !.pc = "done"]
    /\ UNCHANGED <<store, now, ticks, bw, lw, ret, fetch, queue, sel, req, fp, hs, qs>>

\* the task with or without target_tickers
CycleStart == CycleStartWith(BOOLEAN)

\* the selection; the query may fail
CycleSelect == CycleSelectWith(BOOLEAN)

\* one ticker of the batch; the upsert may fail
CycleItem == CycleItemWith(CycleScripts, BOOLEAN)

CycleNext ==
    \/ CycleStart
    \/ CycleSelect
    \/ CycleItem
    \/ CycleBatchEnd
    \/ CycleSleep
    \/ CycleEnd

\* the table before the run: RY.TO has a failed record older than the
\* freshness window, the other symbols have none
CycleInit ==
    /\ store = {SelBatchRow("RY.TO", 1, RateLimited3, SelNow - StaleDays - 1)}
    /\ now = SelNow
    /\ ticks = 0
    /\ bw = [w \in BatchWorkers |-> BatchIdle]
    /\ lw = [w \in LookupWorkers |-> LookupIdle]
    /\ ret = "none"
    /\ fetch = FetchIdle
    /\ queue = <<>>
    /\ sel = SelIdle
    /\ req = ReqIdle
    /\ cyc = CycIdle
    /\ fp = FpIdle
    /\ hs = HsIdle
    /\ qs = QsIdle

SpecCycle == CycleInit /\ [][CycleNext]_vars

--------------------------------------------------------------------------
(* SpecRepeat: execute_comprehensive_enrichment run again and again by    *)
(* the scheduler, with target tickers, on a database that works and a     *)
(* provider that answers every ticker with an error other than 404        *)

\* what yfinance answers: the rate limit on every attempt, or another error
RepeatScripts == {RateLimited3, <<Response("excOther", NoInfo, "ok")>>}

\* the scheduler starts the next run of the task
CycleRestart ==
    /\ cyc.pc = "done"
    /\ cyc' = CycIdle
    /\ UNCHANGED <<store, now, ticks, bw, lw, ret, fetch, queue, sel, req, fp, hs, qs>>

RepeatNext ==
    \/ CycleStartWith({TRUE})
    \/ CycleSelectWith({FALSE})
    \/ CycleItemWith(RepeatScripts, {FALSE})
    \/ CycleBatchEnd
    \/ CycleSleep
    \/ CycleEnd
    \/ CycleRestart

\* the scheduler keeps starting runs, and every call of a run returns
SpecRepeat == CycleInit /\ [][RepeatNext]_vars /\ WF_vars(RepeatNext)

--------------------------------------------------------------------------
(* Properties *)

\* the enrichment fields of a record
EnrichmentFields ==
    {"company_name", "exchange", "asset_type", "asset_confidence", "sector",
     "industry", "sector_key", "industry_key", "country", "country_code",
     "region", "market_cap", "currency", "is_active"}

\* record d carries the enrichment fields of row e
SameFields(e, d) == \A f \in EnrichmentFields : e[f] = d[f]

\* row q is row r, but for last_checked_at
OnlyChecked(r, q) == q = [r EXCEPT !.last_checked_at = q.last_checked_at]

\* some version of the symbol carries the tag 404_NOT_FOUND
Tagged404(rows, symbol) ==
    \E r \in rows :
        /\ r.symbol = symbol
        /\ \E i \in 1..Len(r.fetch_errors) : r.fetch_errors[i] = "404_NOT_FOUND"

InList(seq, x) == \E i \in 1..Len(seq) : seq[i] = x

\* the selection of the batch refresher, and selections with other arguments
Candidates == get_stale_tickers(store, StaleDays, batch_size, MinQuality)
CandidatesOf(days, min_quality) ==
    get_stale_tickers(store, days, batch_size, min_quality)

\* a step in which the batch upsert of w returns
BatchReturns(w) == bw[w].pc \in {"touch", "insert"} /\ bw'[w].pc = "idle"
\* a step in which the upsert of lookup w returns
LookupReturns(w) == lw[w].pc \in {"touch", "insert"} /\ lw'[w].pc = "idle"

\* C1: under every interleaving of concurrent upserts on one symbol no two
\* rows of the store share (symbol, version), and every symbol with rows has
\* exactly one row of maximum version.
C1_UniqueVersion ==
    /\ \A r, q \in store : (r.symbol = q.symbol /\ r.version = q.version) => r = q
    /\ \A s \in Symbols :
         RowsOf(store, s) # {} => Cardinality(LatestRows(store, s)) = 1

\* two upserts raced for one version number: one inserted it, the other was
\* refused by the constraint
C1_Witness ==
    /\ ret = "failed"
    /\ \E r \in store : r.symbol = "ABC" /\ r.version = 2

\* C2: no version is lost under concurrency: an upsert that found its
\* content changed completes successfully and leaves a version row with its
\* content, also when another upsert took the version number first.
C2_NoLostVersion ==
    [][/\ \A w \in BatchWorkers :
            (bw[w].pc = "insert" /\ bw'[w].pc = "idle") =>
                /\ ret' = "inserted"
                /\ \E r \in store' : /\ r.symbol = bw[w].symbol
                                     /\ r.data_hash = bw[w].data_hash
       /\ \A w \in LookupWorkers :
            (lw[w].pc = "insert" /\ lw'[w].pc = "idle") =>
                /\ ret' = "inserted"
                /\ \E r \in store' : /\ r.symbol = lw[w].symbol
                                     /\ r.data_hash = lw[w].new_hash]_vars

\* C3: once a version of a symbol carries 404_NOT_FOUND, the symbol is in no
\* selection of get_stale_tickers, now and after every further step,
\* whatever time passes and whatever versions are stored later.
C3_QuarantinePermanence ==
    [][\A s \in Symbols :
         Tagged404(store, s) =>
            /\ Tagged404(store, s)'
            /\ \A days \in SelectorDays, q \in SelectorQualities :
                 /\ ~InList(CandidatesOf(days, q), s)
                 /\ ~InList(CandidatesOf(days, q)', s)]_vars

\* a 404 row, then a successful high-quality version of the lookup service,
\* and more than the freshness window gone by since
C3_Witness ==
    \E r, q \in store :
        /\ r.symbol = "ABC" /\ q.symbol = "ABC"
        /\ Like404(r)
        /\ q.version > r.version
        /\ q.fetch_success /\ q.data_quality_score >= MinQuality
        /\ q.data_source = "webapp_api_fallback"
        /\ q.last_checked_at < now - StaleDays

\* C4: when a refresh classifies a symbol as permanently not found and the
\* result is passed to the upsert, the store afterwards holds a row of the
\* symbol with fetch_success = false and the tag 404_NOT_FOUND, and the
\* symbol is not selected again.
C4_NotFoundQuarantines ==
    [][\A w \in BatchWorkers :
         (BatchReturns(w) /\ bw[w].data.is_404_failed) =>
            /\ \E r \in store' : /\ r.symbol = bw[w].symbol
                                 /\ r.fetch_success = FALSE
                                 /\ Like404(r)
            /\ ~InList(Candidates', bw[w].symbol)]_vars

\* C5: an upsert with the enrichment fields of the symbol's latest row
\* inserts nothing; it leaves every row as it is, but for the latest row's
\* last_checked_at, which it advances to the current time.
C5_NoOpIdempotence ==
    [][/\ \A w \in BatchWorkers :
            (/\ BatchReturns(w)
             /\ \E e \in LatestRows(store, bw[w].symbol) : SameFields(e, bw[w].data))
            => /\ ret' = "touched"
               /\ Cardinality(store') = Cardinality(store)
               /\ \A r \in store : \E q \in store' : OnlyChecked(r, q)
               /\ \A q \in LatestRows(store', bw[w].symbol) : q.last_checked_at = now
       /\ \A w \in LookupWorkers :
            (/\ LookupReturns(w)
             /\ \E e \in LatestRows(store, lw[w].symbol) : SameFields(e, lw[w].api))
            => /\ ret' = "touched"
               /\ Cardinality(store') = Cardinality(store)
               /\ \A r \in store : \E q \in store' : OnlyChecked(r, q)
               /\ \A q \in LatestRows(store', lw[w].symbol) : q.last_checked_at = now]_vars

\* C6: when one writer upserts the enrichment fields the other writer
\* stored in the symbol's latest row, in either order, no version is
\* created: both writers compute the same data_hash for the same fields.
C6_CrossWriterNoOp ==
    [][/\ \A w \in BatchWorkers :
            (/\ BatchReturns(w)
             /\ \E e \in LatestRows(store, bw[w].symbol) :
                   /\ e.data_source = "webapp_api_fallback"
                   /\ SameFields(e, bw[w].data))
            => (store' \ store = {} /\ bw[w].existing_hash = bw[w].data_hash)
       /\ \A w \in LookupWorkers :
            (/\ LookupReturns(w)
             /\ \E e \in LatestRows(store, lw[w].symbol) :
                   /\ e.data_source = "yfinance_comprehensive"
                   /\ SameFields(e, lw[w].api))
            => (store' \ store = {} /\ ~lw[w].changed)]_vars

C8_FirstLoadedShared ==
    \A r, q \in store : r.symbol = q.symbol => r.first_loaded_at = q.first_loaded_at

\* C9: the history is append-only: every row of the store is in the store
\* after every step, unchanged but for last_checked_at; no step deletes a
\* row.
C9_AppendOnly ==
    [][\A r \in store : \E q \in store' : OnlyChecked(r, q)]_vars

\* version 1 is still there after version 2 was created and after a later
\* upsert has touched version 2
C9_Witness ==
    \E r, q \in store :
        /\ r.symbol = "ABC" /\ q.symbol = "ABC"
        /\ r.version = 1 /\ q.version = 2
        /\ q.last_checked_at > q.last_updated_at

\* C10: when every attempt is answered by a rate-limit signal, the loop
\* makes exactly 3 attempts, waits 10, 20 and 40 seconds, and ends with
\* the tag RATE_LIMIT_EXCEEDED and fetch_success = false.
C10_RateLimitBackoff ==
    (/\ ~fetch.st.running
     /\ fetch.answers # <<>>
     /\ \A i \in 1..Len(fetch.answers) : fetch.answers[i].kind = "exc429")
    => /\ fetch.st.calls = 3
       /\ fetch.st.sleeps = <<10, 20, 40>>
       /\ fetch.st.fetch_errors = <<"RATE_LIMIT_EXCEEDED">>
       /\ fetch.st.fetch_success = FALSE

\* some row of the symbol has quality >= the threshold and was checked
\* within the grace window before time t
RecentHighQuality(rows, symbol, t) ==
    \E r \in rows : /\ r.symbol = symbol
                    /\ r.data_quality_score >= MinQuality
                    /\ r.last_checked_at >= t - GraceDays

\* C11: a refresh that ends in RATE_LIMIT_EXCEEDED or another non-404 error
\* adds the tag 404_NOT_FOUND to no version, and the symbol stays eligible:
\* unless it was quarantined before or has a high-quality record inside the
\* grace window, the next selection returns it.
C11_OnlyNotFoundQuarantines ==
    [][\A w \in BatchWorkers :
         (/\ BatchReturns(w)
          /\ ~bw[w].data.fetch_success
          /\ ~bw[w].data.is_404_failed)
         => /\ Tagged404(store', bw[w].symbol) => Tagged404(store, bw[w].symbol)
            /\ (/\ ~Tagged404(store, bw[w].symbol)
                /\ ~RecentHighQuality(store', bw[w].symbol, now'))
               => InList(Candidates', bw[w].symbol)]_vars

\* a symbol whose refresh ran out of retries, and one whose refresh met
\* another error, have been selected again
C11_Witness ==
    /\ \E r \in store : /\ r.fetch_errors = <<"RATE_LIMIT_EXCEEDED">>
                        /\ InList(queue, r.symbol)
    /\ \E r \in store : /\ r.fetch_errors = <<"API_ERROR">>
                        /\ ~Tagged404(store, r.symbol)

\* some row of the symbol has quality >= q and was checked within the
\* grace window before time t
RecentQuality(rows, symbol, t, q) ==
    \E r \in rows : /\ r.symbol = symbol
                    /\ r.data_quality_score >= q
                    /\ r.last_checked_at >= t - GraceDays

\* the reasons for which a symbol needs a refresh: no record, a record
\* checked before the freshness window, a failed record of a symbol that
\* is not quarantined, a record below the threshold
NeedsRefresh(rows, symbol, t, days, q) ==
    \/ ~\E r \in rows : r.symbol = symbol
    \/ \E r \in rows :
         /\ r.symbol = symbol
         /\ \/ r.last_checked_at < t - days
            \/ (r.fetch_success = FALSE /\ ~Tagged404(rows, symbol))
            \/ r.data_quality_score < q

\* the symbols a selection may return
EligibleSet(rows, t, days, q) ==
    {s \in Symbols : /\ NeedsRefresh(rows, s, t, days, q)
                     /\ ~RecentQuality(rows, s, t, q)
                     /\ ~Tagged404(rows, s)}

\* the place of a symbol in the ascending order of the known symbols
IndexOf(symbol) == CHOOSE i \in 1..Len(SymbolSeq) : SymbolSeq[i] = symbol

Min(a, b) == IF a < b THEN a ELSE b

\* C12: get_stale_tickers returns only known symbols that need a refresh
\* (no record, a record older than the freshness window, a failed record
\* and no quarantine, a record below the threshold); it returns no symbol
\* with a record of quality >= the threshold checked within the 1-day grace
\* window and no quarantined symbol.
C12_SelectorSound ==
    sel.called =>
        \A i \in 1..Len(sel.result) :
            /\ sel.result[i] \in Symbols
            /\ NeedsRefresh(store, sel.result[i], now, sel.days, sel.min_quality)
            /\ ~RecentQuality(store, sel.result[i], now, sel.min_quality)
            /\ ~Tagged404(store, sel.result[i])

\* a call returned one symbol and left out the other, which has a stale
\* record and a high-quality record inside the grace window
C12_Witness ==
    /\ sel.called /\ sel.days = StaleDays /\ sel.min_quality = MinQuality
    /\ sel.result = <<"RY.TO">>
    /\ \E r \in store : r.symbol = "ABC" /\ r.last_checked_at < now - StaleDays
    /\ RecentQuality(store, "ABC", now, MinQuality)

\* C13: get_stale_tickers returns exactly min(limit, number of eligible
\* symbols) distinct symbols: the smallest eligible ones, in ascending
\* order.
C13_SelectorExact ==
    sel.called =>
        LET E == EligibleSet(store, now, sel.days, sel.min_quality)
            R == sel.result
        IN  /\ Len(R) = Min(sel.limit, Cardinality(E))
            /\ \A i \in 1..Len(R) : R[i] \in E
            /\ \A i, j \in 1..Len(R) : i < j => IndexOf(R[i]) < IndexOf(R[j])
            /\ \A s \in E :
                 InList(R, s) \/ \A i \in 1..Len(R) : IndexOf(R[i]) < IndexOf(s)

\* two symbols are eligible and the call with limit 1 returned the first
C13_Witness ==
    /\ sel.called /\ sel.limit = 1
    /\ EligibleSet(store, now, sel.days, sel.min_quality) = {"ABC", "RY.TO"}
    /\ sel.result = <<"ABC">>
    /\ store # {}

--------------------------------------------------------------------------
(* SpecFingerprint: one upsert on its own, by either writer, of data that  *)
(* differs from the latest version of the symbol in one field or in none   *)

\* the fields the two key_data dictionaries draw from
NineFields ==
    {"asset_type", "sector", "industry", "country", "region", "market_cap",
     "currency", "is_active", "company_name"}

\* another value of a field
OtherValue(d, field) ==
    CASE field = "asset_type" -> "ETF"
      [] field = "sector" -> "Health Care"
      [] field = "industry" -> "Drug Makers"
      [] field = "country" -> "Germany"
      [] field = "region" -> "Europe"
      [] field = "market_cap" -> d.market_cap + 1
      [] field = "currency" -> "EUR"
      [] field = "is_active" -> ~d.is_active
      [] field = "company_name" -> "Renamed Corp"

\* the data with one field changed ("none": the data itself)
ChangeField(d, field) ==
    IF field = "none" THEN d ELSE [d EXCEPT ![field] = OtherValue(d, field)]

\* analysis_data of the batch writer, storage_data of the lookup service
FpData(writer, symbol) ==
    IF writer = "batch" THEN comprehensive_ticker_analysis(symbol, Ok(TechInfo))
    ELSE _fetch_from_api(symbol, TechInfo,
                         CHOOSE a \in SectorAnswers : ~a.raised /\ ~a.success)

\* the latest version of the symbol, written by one of the writers
FpInit ==
    /\ \E symbol \in Symbols, t \in SelTimes :
         store \in {{SelBatchRow(symbol, 1, Ok(TechInfo), t)},
                    {SelOrmRow(symbol, 1, TechInfo, t)}}
    /\ now = SelNow
    /\ ticks = 0
    /\ bw = [w \in BatchWorkers |-> BatchIdle]
    /\ lw = [w \in LookupWorkers |-> LookupIdle]
    /\ ret = "none"
    /\ fetch = FetchIdle
    /\ queue = <<>>
    /\ sel = SelIdle
    /\ req = ReqIdle
    /\ cyc = CycIdle
    /\ fp = FpIdle
    /\ hs = HsIdle
    /\ qs = QsIdle

\* update_enriched_data(symbol, analysis_data) or
\* EnrichedTickerData.create_new_version(symbol, storage_data)
FpUpsert ==
    /\ ~fp.called
    /\ \E writer \in {"batch", "orm"}, field \in NineFields \cup {"none"},
          latest \in store :
         LET symbol == latest.symbol
             data == ChangeField(FpData(writer, symbol), field)
         IN  /\ IF writer = "batch"
                THEN store' \in update_enriched_data(store, symbol, data)
                ELSE store' = create_new_version(store, symbol, data)
             /\ fp' = [called |-> TRUE, writer |-> writer, field |-> field,
                       symbol |-> symbol, before |-> store]
    /\ UNCHANGED <<now, ticks, bw, lw, ret, fetch, queue, sel, req, cyc, hs, qs>>

FpNext == FpUpsert

SpecFingerprint == FpInit /\ [][FpNext]_vars

--------------------------------------------------------------------------
(* SpecHash: the fingerprint computed on its own, by either writer, for    *)
(* the data of every payload, with the fields supplied in several orders   *)

\* the sequence rotated by k places
Rotate(seq, k) ==
    [i \in 1..Len(seq) |-> seq[((i + k - 1) % Len(seq)) + 1]]

Reverse(seq) == [i \in 1..Len(seq) |-> seq[Len(seq) + 1 - i]]

\* orders the fields are supplied in: the rotations of the dictionary's
\* order and their reversals
Reorderings(seq) ==
    {Rotate(seq, k) : k \in 0..(Len(seq) - 1)}
    \cup {Reverse(Rotate(seq, k)) : k \in 0..(Len(seq) - 1)}

\* the data a writer hashes for a payload
HashData(writer, symbol, info) ==
    IF writer = "batch" THEN comprehensive_ticker_analysis(symbol, Ok(info))
    ELSE _fetch_from_api(symbol, info,
                         CHOOSE a \in SectorAnswers : ~a.raised /\ ~a.success)

\* the digest is computed twice for the dictionary and once for the same
\* fields supplied in another order; stored is the data_hash the writer
\* puts in the row
HashCall ==
    /\ ~hs.called
    /\ \E writer \in {"batch", "orm"}, symbol \in Symbols, info \in Payloads :
         LET d == HashData(writer, symbol, info)
             key_data == IF writer = "batch" THEN BatchKeyData(d) ELSE OrmKeyData(d)
         IN  \E supplied \in Reorderings(key_data) :
               hs' = [called |-> TRUE, writer |-> writer, symbol |-> symbol,
                      key_data |-> key_data, supplied |-> supplied,
                      first |-> Digest(key_data), second |-> Digest(key_data),
                      reordered |-> Digest(supplied),
                      stored |-> IF writer = "batch" THEN BatchHash(d)
                                 ELSE calculate_data_hash(d)]
    /\ UNCHANGED <<store, now, ticks, bw, lw, ret, fetch, queue, sel, req, cyc, fp, qs>>

HashNext == HashCall

SpecHash == Init /\ [][HashNext]_vars

--------------------------------------------------------------------------
(* SpecScore: _calculate_quality_score on its own, for every combination   *)
(* of present and absent fields and the confidences of the classifier      *)

\* a field present or absent (None)
Maybe(value) == {NULL, value}

\* asset_confidence in hundredths: the values _extract_asset_classification
\* gives, and the one just above 0.8
ScoreConfidences == {30, 70, 80, 81, 95}

ScoreCall ==
    /\ ~qs.called
    /\ \E company_name \in Maybe("Acme Inc"),
          asset_type \in {NULL, "OTHER", "STOCK", "ETF"},
          sector \in Maybe("Technology"), industry \in Maybe("Software"),
          country \in Maybe("Canada"), market_cap \in {0, 1000},
          currency \in Maybe("USD"), exchange \in Maybe("NMS"),
          asset_confidence \in ScoreConfidences :
         LET data == ScoreInput(company_name, asset_type, sector, industry,
                                country, market_cap, currency, exchange,
                                asset_confidence)
         IN  qs' = [called |-> TRUE, data |-> data,
                    score |-> _calculate_quality_score(data)]
    /\ UNCHANGED <<store, now, ticks, bw, lw, ret, fetch, queue, sel, req, cyc, fp, hs>>

ScoreNext == ScoreCall

SpecScore == Init /\ [][ScoreNext]_vars

--------------------------------------------------------------------------
(* The lookup service *)

\* the symbol has a latest record that is fresh and successful
HasFreshLatest(rows, symbol, t) ==
    \E r \in rows :
      /\ r.symbol = symbol
      /\ \A o \in rows : o.symbol = symbol => o.version <= r.version
      /\ r.last_checked_at >= t - StaleDays
      /\ r.fetch_success

\* the answer shows the record: its version and its enrichment fields
ShowsRecord(a, r) ==
    /\ a.symbol = r.symbol
    /\ a.version = r.version
    /\ \A f \in EnrichmentFields : a[f] = r[f]

\* C14: a get whose read of the store answers calls the provider if and
\* only if forceRefresh is set or the symbol has no latest record that is
\* fresh and successful; without a provider call the answer is the latest
\* stored version with from_database = true and the store is as before;
\* with a provider call the answer has from_database = false
C14_CacheFirst ==
    (req.called /\ ~req.raised) =>
      /\ req.provider_called <=>
           (req.force_refresh \/ ~HasFreshLatest(req.before, req.symbol, now))
      /\ ~req.provider_called =>
           /\ store = req.before
           /\ req.response.from_database
           /\ \E r \in req.before :
                /\ r.symbol = req.symbol
                /\ \A o \in req.before :
                     o.symbol = req.symbol => o.version <= r.version
                /\ ShowsRecord(req.response, r)
      /\ req.provider_called => ~req.response.from_database

\* a get without forceRefresh answered from a table of two versions whose
\* latest is fresh and successful
C14_Witness ==
    /\ req.called /\ ~req.force_refresh /\ ~req.provider_called
    /\ req.response.version = 2 /\ req.response.from_database
    /\ Cardinality(req.before) = 2

\* a get without forceRefresh called the provider although the symbol has
\* a record: the latest one is stale or failed
C14_WitnessMiss ==
    /\ req.called /\ ~req.force_refresh /\ req.provider_called
    /\ req.before # {}
    /\ store # req.before

\* the provider fetch of the call failed: yfinance raised, or answered an
\* empty payload
FetchFailed == req.provider \in {"empty", "info_raises", "ticker_raises"}

\* C15: when the provider fetch performed by get fails (the provider
\* raises, or answers an empty payload), get returns a response with
\* success = false
C15_FailedFetchUnsuccessful ==
    (req.called /\ req.provider_called /\ FetchFailed) =>
      (~req.raised /\ ~req.response.success)

\* C16: get always returns a response and never raises to its caller: a
\* failure reading the store, a provider exception and a failure storing
\* the refreshed data each end in a returned answer
C16_NeverRaises == req.called => ~req.raised

--------------------------------------------------------------------------
(* The batch refresher *)

\* C17: a run calls the selector at most max_batches times and processes
\* at most max_batches x batch_size tickers; after the first selection
\* that returns nothing it is over; it waits only after a batch that
\* processed a ticker and never after the max_batches-th batch
C17_CycleBounded ==
    /\ cyc.selector_calls <= max_batches
    /\ cyc.total_stats.processed
         + (IF cyc.pc = "items" THEN cyc.stats.processed ELSE 0)
         <= max_batches * cyc.batch_size
    /\ cyc.empty_at # 0 =>
         (cyc.pc = "done" /\ cyc.selector_calls = cyc.empty_at)
    /\ cyc.slept_after \subseteq (cyc.nonempty \ {max_batches})
    /\ cyc.sleeps = Cardinality(cyc.slept_after)

\* a run with batch_size 1 went through all max_batches batches: it
\* processed max_batches tickers and waited after all batches but the last
C17_Witness ==
    /\ cyc.pc = "done" /\ cyc.batch_size = 1
    /\ cyc.selector_calls = max_batches
    /\ cyc.total_stats.processed = max_batches
    /\ cyc.sleeps = max_batches - 1
    /\ cyc.empty_at = 0

\* a run stopped at an empty selection after batches that processed
\* tickers
C17_WitnessEarlyStop ==
    /\ cyc.pc = "done" /\ cyc.empty_at = 3
    /\ cyc.total_stats.processed > 0
    /\ cyc.sleeps = 2

\* a pass of the for loop of process_ticker_batch
ItemStep == cyc.pc = "items" /\ queue # <<>> /\ queue' = Tail(queue)

\* the provider call of the item failed: not found, rate limit exhausted
\* or another error
ProviderFailed(item) == ~item.fetch_success /\ item.fetch_errors # <<>>

\* C18: within a batch every failure of an item, whether its provider
\* call failed or its upsert failed, increments the errors counter, and
\* the remaining tickers of the batch are still processed
C18_ItemFailuresCounted ==
    [][ItemStep =>
         /\ cyc'.pc = "items"
         /\ cyc'.stats.processed = cyc.stats.processed + 1
         /\ (ProviderFailed(cyc'.item) \/ ~cyc'.item.success) =>
              cyc'.stats.errors = cyc.stats.errors + 1]_vars

--------------------------------------------------------------------------
(* The fingerprint *)

\* the row the upsert wrote or touched shows the data: fields that differ
\* from the version before in just the one field
WroteVersion(rows, before, symbol) ==
    /\ Cardinality(rows) = Cardinality(before) + 1
    /\ \E r \in rows \ before :
         /\ r.symbol = symbol
         /\ \A o \in before : o.symbol = symbol => r.version = o.version + 1

\* C20: for a symbol that has a latest version, an upsert whose data
\* differs from that version in one of the nine fields creates a new
\* version, with the batch writer and with the lookup service
C20_SingleFieldChange ==
    (fp.called /\ fp.field \in NineFields) =>
      /\ WroteVersion(store, fp.before, fp.symbol)
      /\ \E r \in store \ fp.before, o \in fp.before :
           \A g \in NineFields : (r[g] # o[g]) <=> (g = fp.field)

\* C21: the fingerprint of a set of field values, absent ones included,
\* is the same whenever it is computed, and the order in which the fields
\* are supplied does not affect it
C21_FingerprintDeterministic ==
    hs.called =>
      /\ hs.first = hs.second
      /\ hs.reordered = hs.first
      /\ hs.stored = hs.first

\* the fields were supplied in another order than the dictionary's, one
\* of them absent, and the digest is the one of the dictionary
C21_Witness ==
    /\ hs.called
    /\ hs.supplied # hs.key_data
    /\ hs.supplied[1][1] # hs.key_data[1][1]
    /\ \E i \in 1..Len(hs.key_data) :
         hs.key_data[i][1] = "sector" /\ hs.key_data[i][2] = NULL
    /\ hs.reordered = hs.first

--------------------------------------------------------------------------
(* The quality scorer *)

\* the eight weighted fields are present, the asset type counting only
\* when it is not OTHER
AllWeightedPresent(d) ==
    /\ d.company_name # NULL
    /\ d.asset_type # NULL /\ d.asset_type # "OTHER"
    /\ d.sector # NULL /\ d.industry # NULL /\ d.country # NULL
    /\ d.market_cap # 0
    /\ d.currency # NULL /\ d.exchange # NULL

\* C22: the quality score lies in [0, 1] (in fortieths: 0..40), and it is
\* 1 exactly when the eight weighted fields are present, the asset type
\* is not OTHER and the confidence exceeds 0.8
C22_QualityBound ==
    qs.called =>
      /\ 0 <= qs.score /\ qs.score <= MaxScoreUnits
      /\ (qs.score = MaxScoreUnits) <=>
           (AllWeightedPresent(qs.data) /\ qs.data.asset_confidence > 80)

\* every field is present and the confidence is exactly 0.8: the score
\* is 0.9
C22_Witness ==
    /\ qs.called /\ AllWeightedPresent(qs.data)
    /\ qs.data.asset_confidence = 80
    /\ qs.score = 36

\* every field is present and the confidence is above 0.8: the score is 1
C22_WitnessFull ==
    /\ qs.called /\ AllWeightedPresent(qs.data)
    /\ qs.data.asset_confidence = 81
    /\ qs.score = MaxScoreUnits

--------------------------------------------------------------------------
(* The retry loop *)

\* the answer is classified as not found: a 404 exception, or a payload
\* that fails the checks
NotFoundAnswer(r) ==
    \/ r.kind = "exc404"
    \/ r.kind = "info" /\ is_404_or_delisted(r.info, r.hist)

\* C23: once an attempt is classified as not found, the call makes no
\* further provider attempt and no backoff sleep, also when earlier
\* attempts of the call were rate-limited: the not-found answer is the
\* last one and the only sleeps are those after the rate-limited attempts
C23_NotFoundShortCircuit ==
    \A i \in 1..Len(fetch.answers) :
      NotFoundAnswer(fetch.answers[i]) =>
        /\ i = Len(fetch.answers)
        /\ ~fetch.st.running
        /\ fetch.st.is_404_failed
        /\ fetch.st.calls = i
        /\ Len(fetch.st.sleeps) = i - 1
        /\ \A j \in 1..(i - 1) : fetch.answers[j].kind = "exc429"

\* a rate-limited attempt was followed by a 404: two calls, one sleep
C23_Witness ==
    /\ Len(fetch.answers) = 2
    /\ fetch.answers[1].kind = "exc429" /\ fetch.answers[2].kind = "exc404"
    /\ ~fetch.st.running /\ fetch.st.is_404_failed
    /\ fetch.st.calls = 2 /\ fetch.st.sleeps = <<10>>

\* the call is over with an outcome: success or an error tag
Terminal(st) == ~st.running /\ (st.fetch_success \/ st.fetch_errors # <<>>)

\* C24: every call terminates: it makes at most 3 provider attempts, only
\* a rate-limit answer on an attempt before the last leads to another
\* attempt, and the loop reaches a terminal outcome
C24_RetryTerminates ==
    /\ [](/\ fetch.st.calls <= max_retries
          /\ fetch.st.calls = Len(fetch.answers)
          /\ (fetch.st.running /\ fetch.answers # <<>>) =>
               /\ Len(fetch.answers) < max_retries
               /\ \A i \in 1..Len(fetch.answers) :
                    fetch.answers[i].kind = "exc429"
          /\ (~fetch.st.running /\ fetch.answers # <<>>) => Terminal(fetch.st))
    /\ (fetch.st.running ~> Terminal(fetch.st))

\* a call ended at its third attempt, after two rate-limited ones
C24_Witness ==
    /\ ~fetch.st.running /\ fetch.st.calls = max_retries
    /\ fetch.answers[1].kind = "exc429" /\ fetch.answers[2].kind = "exc429"
    /\ fetch.answers[3].kind = "info" /\ fetch.st.fetch_success

--------------------------------------------------------------------------
(* The cycle and the failures of the database *)

\* C25: when the query of the candidate selection fails, the cycle ends
\* with a failure its caller can see (an error counted in the totals; the
\* task raises nothing), not as an empty cycle
C25_SelectionFailureSurfaced ==
    (cyc.pc = "done" /\ cyc.query_failed) => cyc.total_stats.errors > 0

--------------------------------------------------------------------------
(* The selection and the older versions *)

\* the latest version is successful, of quality >= q and checked within
\* the freshness window
LatestGood(rows, symbol, days, q) ==
    /\ RowsOf(rows, symbol) # {}
    /\ \A r \in LatestRows(rows, symbol) :
         /\ r.fetch_success
         /\ r.data_quality_score >= q
         /\ r.last_checked_at >= now - days

\* C26: the selection looks at the latest version only: a symbol without
\* quarantine whose latest version is successful, of quality >= the
\* threshold and checked within the freshness window is not returned,
\* whatever its older versions are
C26_LatestVersionDecides ==
    sel.called =>
        \A symbol \in Symbols :
            (LatestGood(store, symbol, sel.days, sel.min_quality)
             /\ ~Skip404(store, symbol))
              => ~InList(sel.result, symbol)

--------------------------------------------------------------------------
(* The touch of an unchanged record under concurrent upserts *)

\* the UPDATE of last_checked_at hits the row that is the latest version
\* of the symbol when it runs, and that row carries this fingerprint
TouchesLatest(symbol, version, data_hash) ==
    \A r \in LatestRows(store, symbol) :
        r.version = version /\ r.data_hash = data_hash

\* C27: under every interleaving of concurrent upserts of one symbol, an
\* upsert that found the data unchanged advances last_checked_at only on
\* the row that is the latest version at the moment of the write, and only
\* when the fingerprint of that row is the upserted one; the
\* last_checked_at of a superseded version is never written
C27_TouchOnlyLatest ==
    [][/\ \A w \in BatchWorkers :
            (bw[w].pc = "touch" /\ bw'[w].pc = "idle") =>
              TouchesLatest(bw[w].symbol, bw[w].existing_version, bw[w].data_hash)
       /\ \A w \in LookupWorkers :
            (lw[w].pc = "touch" /\ lw'[w].pc = "idle") =>
              TouchesLatest(lw[w].symbol, lw[w].latest_version, lw[w].new_hash)]_vars

--------------------------------------------------------------------------
(* A failed refresh and the data it finds *)

\* what getLatest returns of a row: the enrichment fields and fetch_success
LatestView(r) ==
    [company_name |-> r.company_name, asset_type |-> r.asset_type,
     sector |-> r.sector, industry |-> r.industry, country |-> r.country,
     market_cap |-> r.market_cap, currency |-> r.currency,
     exchange |-> r.exchange, fetch_success |-> r.fetch_success]

\* the refresh ended in a provider failure other than not found
RefreshFailed(data) ==
    /\ ~data.fetch_success
    /\ data.fetch_errors # <<>>
    /\ ~InList(data.fetch_errors, "404_NOT_FOUND")

\* C28: a failed refresh never supersedes good data: when the latest
\* version of a symbol is successful and a batch refresh of it ends in a
\* provider failure (rate limit exhausted or another error), the
\* enrichment fields and fetch_success of the latest version are the same
\* after the refresh as before
C28_FailedRefreshKeepsGood ==
    [][\A w \in BatchWorkers :
         (/\ bw[w].pc \in {"touch", "insert"} /\ bw'[w].pc = "idle"
          /\ RefreshFailed(bw[w].data)
          /\ \E r \in LatestRows(store, bw[w].symbol) : r.fetch_success)
           => {LatestView(r) : r \in LatestRows(store', bw[w].symbol)}
                = {LatestView(r) : r \in LatestRows(store, bw[w].symbol)}]_vars

--------------------------------------------------------------------------
(* Repeated runs *)

\* C29: no starvation: under repeated runs, with a database that works
\* and a provider that answers, every known symbol that is eligible and
\* not quarantined is eventually processed, also when the symbols that
\* sort before it keep failing with errors other than 404
C29_NoStarvation ==
    \A symbol \in Symbols :
        (Eligible(store, symbol, StaleDays, MinQuality))
           ~> (cyc.pc = "items" /\ cyc.item.symbol = symbol)

--------------------------------------------------------------------------
(* The counters of a run *)

\* the counters agree: every processed item was updated or failed, and
\* the high-quality items are among the updated ones
StatsConsistent(stats) ==
    /\ stats.processed = stats.updated + stats.errors
    /\ stats.high_quality <= stats.updated

\* C30: after every batch and at the end of every run the totals satisfy
\* processed = updated + errors and high_quality <= updated, and processed
\* is the number of candidates handled so far; the counters of the batch
\* under way agree in the same way
C30_StatsConsistent ==
    /\ StatsConsistent(cyc.stats)
    /\ cyc.pc \in {"loop", "sleep", "done"} =>
         /\ StatsConsistent(cyc.total_stats)
         /\ cyc.total_stats.processed = cyc.handled

\* a run ended after it handled candidates of each kind: an upsert that
\* failed, and updates of which not all are of high quality
C30_Witness ==
    /\ cyc.pc = "done"
    /\ cyc.total_stats.errors >= 1
    /\ cyc.total_stats.high_quality >= 1
    /\ cyc.total_stats.high_quality < cyc.total_stats.updated
    /\ cyc.total_stats.processed = cyc.handled


==========================================================================
